---- MODULE Spec2Model ----
(***************************************************************************)
(* The Mines engine of createMinesGame (src/unnamed/part_000): the game    *)
(* state machine, the per-tile flags, the setTimeout timers and the ticker *)
(* tweens that carry the deferred reveals.                                 *)
(*                                                                         *)
(* Time is abstracted.  Every delay and duration is a host option and the  *)
(* frame cadence is not guaranteed, so pending timers and running tweens   *)
(* may fire and complete in any order, except where setTimeout orders     *)
(* them: the timers of one revealAllTiles call fire in the order of their  *)
(* delays, and timers of the same delay fire in the order they were set.   *)
(* One ticker frame that completes several tweens is the sequence of their *)
(* completions.  Graphics transforms, tints, sounds, the win popup and the *)
(* hover pose are not part of the state, nor is the face a cascade reveal  *)
(* shows (bombPositions and the shuffle of revealAllTiles): a cascade      *)
(* reveal carries the face "either".                                       *)
(*                                                                         *)
(* The tween scheduler itself (tween, part_000:45-56) is modelled apart,   *)
(* with time: `now` is performance.now() in whole units, a frame runs the  *)
(* step of every tween registered on the ticker, and a progress is the     *)
(* fraction num / den.                                                     *)
(***************************************************************************)
EXTENDS Integers, FiniteSets, Sequences, Bags, TLC

VARIABLES
    GRID,                   \* opts.grid
    wiggleSelectionEnabled, \* opts.wiggleSelectionEnabled
    mines, totalSafe, revealedSafe,
    gameOver, waitingForChoice, selectedTile,
    tiles,                  \* the current board: tile index -> tile flags
    timers,                 \* bag of the pending flip timers of player reveals
    cascades,               \* bag of revealAllTiles calls with timers pending
    cflips,                 \* queue of the pending flip timers of cascade reveals
    tweens,                 \* bag of flip tweens registered on the ticker
    onWinCalls, onGameOverCalls, \* host callback invocations since the last reset()
    calls,                  \* onCardSelected invocations made by the last step
    bombPositions,          \* the tiles revealAllTiles designated as bombs
    last,                   \* the call the last step served, if it took effect
    bombConfirmed,          \* an accepted confirmBomb happened since the last reset()
    taps,                   \* taps accepted so far
    rebuilds,               \* board rebuilds (reset, setMines, resize) so far
    now,                    \* performance.now()
    frames,                 \* ticker frames run so far
    ticker,                 \* the tweens started so far, in the order of their start
    hover,                  \* one tile's hover: its token, its pose, its hover tweens
    stagger,                \* one reveal-all cascade: its timers and its flip starts
    delays,                 \* the flip delays revealTileWithFlip computed on one board
    twin                    \* the engine of the same host with the effects disabled

vars == <<GRID, wiggleSelectionEnabled, mines, totalSafe, revealedSafe, gameOver,
          waitingForChoice, selectedTile, tiles, timers, cascades, cflips, tweens,
          onWinCalls, onGameOverCalls, calls, bombPositions, last, bombConfirmed,
          taps, rebuilds, now, frames, ticker, hover, stagger, delays, twin>>

(***************************************************************************)
(* Bounds of the model.                                                    *)
(***************************************************************************)
\* taps the engine accepts in one behaviour that may rebuild the board
MaxTaps == 2
\* taps the engine accepts in one behaviour on one board
MaxBoardTaps == 3
\* board rebuilds (reset, setMines, resize) in one behaviour
MaxRebuilds == 1
\* grid sizes of the clamp specification
MaxClampGrid == 5
\* tweens started in one behaviour of the scheduler specification
MaxTweens == 2
\* the clock of the scheduler specification runs from 0 to MaxTime
MaxTime == 4
\* ticker frames in one behaviour of the scheduler specification
MaxFrames == 3
\* tween durations run from 0 to MaxDuration
MaxDuration == 3
\* hover tweens started in one behaviour of the hover specification
MaxHovers == 3
\* the unrevealed tiles of the cascade of SpecStagger
MaxStagger == 3
\* the largest revealAllIntervalDelay and flipDelayMin of SpecStagger
MaxDelay == 2
\* the clock of SpecStagger stops here
MaxStaggerTime == 8
\* the reveals of SpecDelay
MaxReveals == 3

\* grid sizes of the engine specification
Grids == {2}

NoTile == 0

Max2(a, b) == IF a >= b THEN a ELSE b
Min2(a, b) == IF a <= b THEN a ELSE b

(***************************************************************************)
(* n | 0 (ToInt32) of an integer n = hi * 2^16 + lo, 0 <= lo < 2^16.       *)
(***************************************************************************)
Half == 256 * 256
ToInt32(n) ==
    LET h == ((n.hi % Half) + Half) % Half
        hs == IF h >= Half \div 2 THEN h - Half ELSE h
    IN  hs * Half + n.lo

\* the integer n as the pair the model passes to setMines
IntArg(hi, lo) == [hi |-> hi, lo |-> lo]

\* a faulty variant: the lower clamp is 0
ClampedFromZero(v, grid) == Max2(0, Min2(v, grid * grid - 1))

\* Math.max(1, Math.min(v, GRID * GRID - 1))
ClampMines(v, grid) == Max2(1, Min2(v, grid * grid - 1))

(***************************************************************************)
(* Tiles.  A tile is addressed by its index in `tiles` (row-major, as      *)
(* buildBoard pushes them); row and col are the fields createTile sets.    *)
(***************************************************************************)
TileIds(grid) == 1 .. (grid * grid)
Row(t) == (t - 1) \div GRID
Col(t) == (t - 1) % GRID

\* createTile: revealed = false, _animating = false, taped unset.
\* started / done / adds count the flips started and completed on the tile and
\* the increments of revealedSafe its flips made; face is the icon the tile
\* shows, "none" while the icon is hidden.
FreshTile ==
    [revealed |-> FALSE, animating |-> FALSE, taped |-> FALSE, wiggle |-> FALSE,
     started |-> 0, done |-> 0, adds |-> 0, face |-> "none"]

\* stopWiggle: a fresh _wiggleToken makes the running wiggle tween inert
StopWiggle(tile) == [tile EXCEPT !.wiggle = FALSE, !.animating = FALSE]

(***************************************************************************)
(* The engine state as one record, so that a handler is the composition of *)
(* the functions it calls.                                                 *)
(***************************************************************************)
State ==
    [mines |-> mines, totalSafe |-> totalSafe, revealedSafe |-> revealedSafe,
     gameOver |-> gameOver, waitingForChoice |-> waitingForChoice,
     selectedTile |-> selectedTile, tiles |-> tiles,
     timers |-> timers, cascades |-> cascades, cflips |-> cflips,
     tweens |-> tweens,
     onWinCalls |-> onWinCalls, onGameOverCalls |-> onGameOverCalls,
     calls |-> <<>>, bombPositions |-> bombPositions,
     wiggleSelectionEnabled |-> wiggleSelectionEnabled]

\* the engine variables take the values of S
Assigned(S) ==
    /\ mines' = S.mines
    /\ totalSafe' = S.totalSafe
    /\ revealedSafe' = S.revealedSafe
    /\ gameOver' = S.gameOver
    /\ waitingForChoice' = S.waitingForChoice
    /\ selectedTile' = S.selectedTile
    /\ tiles' = S.tiles
    /\ timers' = S.timers
    /\ cascades' = S.cascades
    /\ cflips' = S.cflips
    /\ tweens' = S.tweens
    /\ onWinCalls' = S.onWinCalls
    /\ onGameOverCalls' = S.onGameOverCalls
    /\ calls' = S.calls
    /\ bombPositions' = S.bombPositions
    /\ UNCHANGED <<GRID, wiggleSelectionEnabled, now, frames, ticker, hover, stagger,
                    delays>>

Becomes(S) == Assigned(S) /\ UNCHANGED twin

\* getState()
GetState(S) ==
    [grid |-> GRID, mines |-> S.mines, revealedSafe |-> S.revealedSafe,
     totalSafe |-> S.totalSafe, gameOver |-> S.gameOver,
     waitingForChoice |-> S.waitingForChoice,
     selectedTile |-> IF S.selectedTile # NoTile
                      THEN <<Row(S.selectedTile), Col(S.selectedTile)>>
                      ELSE <<>>]

(***************************************************************************)
(* Timers and tweens.                                                      *)
(***************************************************************************)
\* the flip timer of a player reveal: its delay lies between flipDelayMin and
\* flipDelayMax, so these timers fire in any order
FlipTimer(t, face) == [tile |-> t, face |-> face]
FlipTween(t, face, byPlayer) ==
    [tile |-> t, face |-> face, byPlayer |-> byPlayer]

One(e) == SetToBag({e})

\* a faulty variant: the tile is marked revealed when the reveal is scheduled
RevealedAtOnce(S, t, face, byPlayer) ==
    IF S.tiles[t].animating \/ S.tiles[t].revealed
    THEN S
    ELSE IF byPlayer
         THEN [S EXCEPT !.timers = @ (+) One(FlipTimer(t, face)),
                        !.tiles[t].revealed = TRUE]
         ELSE [S EXCEPT !.cflips = Append(@, t), !.tiles[t].revealed = TRUE]

\* revealTileWithFlip up to the setTimeout: the guard and the scheduling.
\* A reveal that is not the player's waits flipDelayMin: these timers fire in
\* the order they were set, cflips is their queue.
RevealTileWithFlip(S, t, face, byPlayer) ==
    IF S.tiles[t].animating \/ S.tiles[t].revealed
    THEN S
    ELSE IF byPlayer
         THEN [S EXCEPT !.timers = @ (+) One(FlipTimer(t, face))]
         ELSE [S EXCEPT !.cflips = Append(@, t)]

(***************************************************************************)
(* Host confirmations.                                                     *)
(***************************************************************************)
\* the guard of setSelectedCardIsDiamond / SetSelectedCardIsBomb
ConfirmAccepted(S) ==
    /\ S.waitingForChoice
    /\ S.selectedTile # NoTile
    /\ ~S.tiles[S.selectedTile].revealed
    /\ ~S.tiles[S.selectedTile].animating

\* a faulty variant: without a selected tile, every animating tile is stopped
StoppedWithoutSelection(S) ==
    IF S.selectedTile # NoTile
    THEN IF S.tiles[S.selectedTile].animating
         THEN [S EXCEPT !.tiles[S.selectedTile] = StopWiggle(@)]
         ELSE S
    ELSE [S EXCEPT !.tiles = [i \in DOMAIN @ |->
                       IF @[i].animating THEN StopWiggle(@[i]) ELSE @[i]]]

\* if (selectedTile?._animating) { stopHover(selectedTile); stopWiggle(selectedTile); }
StopSelectedAnimations(S) ==
    IF S.selectedTile # NoTile /\ S.tiles[S.selectedTile].animating
    THEN [S EXCEPT !.tiles[S.selectedTile] = StopWiggle(@)]
    ELSE S

\* a faulty variant: the selection is kept
SelectionKept(S) == S

\* the selection state a confirm leaves behind
Deselected(S) == [S EXCEPT !.waitingForChoice = FALSE, !.selectedTile = NoTile]

SetSelectedCardIsDiamond(S) ==
    LET S1 == StopSelectedAnimations(S)
    IN  IF ~ConfirmAccepted(S1)
        THEN S1
        ELSE RevealTileWithFlip(Deselected(S1), S1.selectedTile, "diamond", TRUE)

\* a faulty variant: gameOver is left as it is
GameOverLeft(S) == S

\* gameOver = true
MarkGameOver(S) == [S EXCEPT !.gameOver = TRUE]

SetSelectedCardIsBomb(S) ==
    LET S1 == StopSelectedAnimations(S)
    IN  IF ~ConfirmAccepted(S1)
        THEN S1
        ELSE RevealTileWithFlip(Deselected(MarkGameOver(S1)), S1.selectedTile,
                                "bomb", TRUE)

(***************************************************************************)
(* Selection.                                                              *)
(***************************************************************************)
\* what the host does inside onCardSelected: nothing yet, or a confirm call
HostReplies == {"later", "diamond", "bomb"}

HostReply(S, reply) ==
    CASE reply = "diamond" -> SetSelectedCardIsDiamond(S)
      [] reply = "bomb" -> SetSelectedCardIsBomb(S)
      [] OTHER -> S

WiggleTile(S, t) ==
    IF ~S.wiggleSelectionEnabled \/ S.tiles[t].animating
    THEN S
    ELSE [S EXCEPT !.tiles[t].animating = TRUE, !.tiles[t].wiggle = TRUE]

\* the argument of onCardSelected, and the selection state the host sees
\* when it is invoked
CardSelectedCall(S, t) ==
    [row |-> Row(t), col |-> Col(t),
     waitingForChoice |-> S.waitingForChoice, selectedTile |-> S.selectedTile]

\* a faulty variant: the flag is raised, the tile is not recorded
FlagRaisedOnly(S, t) == [S EXCEPT !.waitingForChoice = TRUE]

\* waitingForChoice = true; selectedTile = tile
Selected(S, t) == [S EXCEPT !.waitingForChoice = TRUE, !.selectedTile = t]

\* a faulty variant: the host is notified before the selection is recorded
NotifiedFirst(S, t, reply) ==
    LET S1 == [S EXCEPT !.calls = Append(@, CardSelectedCall(S, t))]
    IN  WiggleTile(HostReply(Selected(S1, t), reply), t)

EnterWaitingState(S, t, reply) ==
    LET S1 == Selected(S, t)
        S2 == [S1 EXCEPT !.calls = Append(@, CardSelectedCall(S1, t))]
    IN  WiggleTile(HostReply(S2, reply), t)

UntapedCount(S) == Cardinality({i \in DOMAIN S.tiles : ~S.tiles[i].taped})

\* a faulty variant: a pending selection does not reject the tap
RejectedUnlessWaiting(S, t) ==
    \/ S.gameOver
    \/ S.tiles[t].revealed
    \/ S.tiles[t].animating
    \/ UntapedCount(S) <= S.mines

\* a faulty variant: the count of untapped tiles is not looked at
RejectedWhateverIsLeft(S, t) ==
    \/ S.gameOver
    \/ S.waitingForChoice
    \/ S.tiles[t].revealed
    \/ S.tiles[t].animating

\* the early return of the pointertap handler
TapRejected(S, t) ==
    \/ S.gameOver
    \/ S.waitingForChoice
    \/ S.tiles[t].revealed
    \/ S.tiles[t].animating
    \/ UntapedCount(S) <= S.mines

PointerTap(S, t, reply) ==
    IF TapRejected(S, t)
    THEN S
    ELSE EnterWaitingState([S EXCEPT !.tiles[t].taped = TRUE], t, reply)

(***************************************************************************)
(* Reveal-all cascade.                                                     *)
(***************************************************************************)
Unrevealed(S) == {i \in DOMAIN S.tiles : ~S.tiles[i].revealed}

RECURSIVE Ascending(_)
Ascending(set) ==
    IF set = {} THEN <<>>
    ELSE LET m == CHOOSE x \in set : \A y \in set : x <= y
         IN  <<m>> \o Ascending(set \ {m})

\* revealAllTiles: one timer per unrevealed tile of the board, of delay
\* revealAllIntervalDelay * idx: the timers of one call fire in the order of
\* the tiles, and a call is the queue of the tiles it has yet to reveal
RevealAllTiles(S) ==
    IF Unrevealed(S) = {} THEN S
    ELSE [S EXCEPT !.cascades = @ (+) One(Ascending(Unrevealed(S)))]

(***************************************************************************)
(* Timer callbacks.                                                        *)
(***************************************************************************)
OnBoard(t) == t # NoTile

\* the setTimeout callback of revealTileWithFlip, up to the tween registration
StartFlip(S, t, face, byPlayer) ==
    LET S1 == [S EXCEPT !.tweens = @ (+) One(FlipTween(t, face, byPlayer))]
    IN  IF OnBoard(t)
        THEN [S1 EXCEPT !.tiles[t] =
                  [StopWiggle(@) EXCEPT !.animating = TRUE, !.started = @ + 1]]
        ELSE S1

\* the flip timer k of a player reveal fires
FlipTimerFires(S, k) ==
    StartFlip([S EXCEPT !.timers = @ (-) One(k)], k.tile, k.face, TRUE)

\* the oldest flip timer of the reveals that are not the player's fires
CascadeFlipFires(S) ==
    StartFlip([S EXCEPT !.cflips = Tail(@)], Head(S.cflips), "either", FALSE)

\* the setTimeout callback of revealAllTiles, for the next tile of the call q
CascadeTimerFires(S, q) ==
    LET rest == IF Len(q) > 1 THEN One(Tail(q)) ELSE EmptyBag
        S1 == [S EXCEPT !.cascades = (@ (-) One(q)) (+) rest]
    IN  RevealTileWithFlip(S1, Head(q), "either", FALSE)

(***************************************************************************)
(* The flip tween.                                                         *)
(***************************************************************************)
\* a faulty variant: the flip ends and the tile is not marked revealed
LandedUnrevealed(S, w) ==
    IF OnBoard(w.tile)
    THEN [S EXCEPT !.tiles[w.tile] =
             [@ EXCEPT !.wiggle = FALSE, !.animating = FALSE, !.done = @ + 1]]
    ELSE S

\* complete(): the tile's flags
FlipLanded(S, w) ==
    IF OnBoard(w.tile)
    THEN [S EXCEPT !.tiles[w.tile] =
             [@ EXCEPT !.wiggle = FALSE, !.animating = FALSE, !.revealed = TRUE,
                       !.done = @ + 1]]
    ELSE S

\* revealedSafe += 1
CountSafe(S, w) ==
    LET S1 == [S EXCEPT !.revealedSafe = @ + 1]
    IN  IF OnBoard(w.tile) THEN [S1 EXCEPT !.tiles[w.tile].adds = @ + 1] ELSE S1

\* a faulty variant: the win needs one reveal more
WonAboveTotal(S) == S.revealedSafe > S.totalSafe

\* revealedSafe >= totalSafe
Won(S) == S.revealedSafe >= S.totalSafe

\* the last step of the tween: update(1), deregistration, complete()
FlipComplete(S, w) ==
    LET S1 == FlipLanded([S EXCEPT !.tweens = @ (-) One(w)], w)
        S2 == CountSafe(S1, w)
    IN  CASE ~w.byPlayer -> S1
          [] w.face = "bomb" ->
                [RevealAllTiles(S1) EXCEPT !.onGameOverCalls = @ + 1]
          [] Won(S2) ->
                [RevealAllTiles(MarkGameOver(S2)) EXCEPT !.onWinCalls = @ + 1]
          [] OTHER -> S2

\* the wiggle tween's complete() while its token is the tile's
WiggleComplete(S, t) ==
    [S EXCEPT !.tiles[t].wiggle = FALSE, !.tiles[t].animating = FALSE]

(***************************************************************************)
(* Board (re)build.  The tiles of the previous board leave `tiles`, but    *)
(* the timers and tweens that captured them stay scheduled.  A player      *)
(* reveal of a detached tile still runs its completion handler on the      *)
(* engine's variables: it is kept, with no tile of the board.  Its timer   *)
(* callback touches the detached tile only and registers the tween, so a   *)
(* detached pending timer is carried as the tween it registers.  Reveals   *)
(* of detached tiles that are not the player's only touch those tiles:     *)
(* they are dropped.                                                       *)
(***************************************************************************)
Detach(e) == FlipTween(NoTile, e.face, TRUE)

PlayerTweens(bag) ==
    LET keep == {e \in BagToSet(bag) : e.byPlayer}
    IN  [e \in keep |-> bag[e]]

Detached(S) ==
    BagOfAll(Detach, S.timers) (+) BagOfAll(Detach, PlayerTweens(S.tweens))

ClearSelection(S) == Deselected(S)

\* a faulty variant: the count survives the rebuild
CountKept(S) == S

\* revealedSafe = 0
ResetCount(S) == [S EXCEPT !.revealedSafe = 0]

BuildBoard(S) ==
    [ResetCount(ClearSelection(S)) EXCEPT
        !.tiles = [i \in TileIds(GRID) |-> FreshTile],
        !.totalSafe = GRID * GRID - S.mines,
        !.timers = EmptyBag,
        !.cascades = EmptyBag,
        !.cflips = <<>>,
        !.tweens = Detached(S)]

\* gameOver = false
ClearGameOver(S) == [S EXCEPT !.gameOver = FALSE]

\* bombPositions.clear()
ClearBombs(S) == [S EXCEPT !.bombPositions = {}]

ResetGame(S) ==
    BuildBoard(ClearBombs(ClearSelection(ClearGameOver(S))))

\* a faulty variant: the mine count is set and the game goes on
MinesSetOnly(S, n) == [S EXCEPT !.mines = ClampMines(ToInt32(n), GRID)]

SetMinesTo(S, n) ==
    ResetGame([S EXCEPT !.mines = ClampMines(ToInt32(n), GRID)])

\* a faulty variant: the resize starts a new game
ResizedIntoNewGame(S) == ResetGame(S)

ResizeSquare(S) == BuildBoard(S)

(***************************************************************************)
(* Hover of one tile: hoverTile, stopHover, forceFlatPose.  The pose is    *)
(* what the hover tween writes together (scale, skew, y): "flat", "up" or  *)
(* a value between the two, "mid".  A token is the number of the hover     *)
(* tween that took it, 0 for the Symbol of stopHover / forceFlatPose and   *)
(* for the undefined token of a new tile.                                  *)
(***************************************************************************)
NoHover ==
    [enabled |-> TRUE, animating |-> FALSE, revealed |-> FALSE,
     token |-> 0, pose |-> "flat", tweens |-> <<>>, landed |-> 0]

\* endScale / endSkew / endY
EndPose(on) == IF on THEN "up" ELSE "flat"

\* start + (end - start) * p for 0 < p < 1
Between(start, end) == IF start = end THEN start ELSE "mid"

\* a faulty variant: the token is not compared
WritesWhateverToken(H, i) == TRUE

\* tile._hoverToken === token
HoldsToken(H, i) == H.token = i

\* hoverTile(tile, on)
HoverTile(H, on) ==
    IF ~H.enabled \/ H.animating
    THEN H
    ELSE [H EXCEPT !.token = Len(H.tweens) + 1,
                   !.tweens = Append(@, [start |-> H.pose, end |-> EndPose(on),
                                         registered |-> TRUE, updates |-> 0,
                                         landed |-> 0])]

\* stopHover(t)
StopHover(H) == [H EXCEPT !.token = 0]

\* forceFlatPose(t): the tokens are replaced and clampOnce() runs; its two
\* repeats on the next frames write the same flat pose
ForceFlatPose(H) == [H EXCEPT !.token = 0, !.pose = "flat"]

\* update(p) of the hover tween i on a frame before its last
HoverUpdate(H, i) ==
    LET H1 == [H EXCEPT !.tweens[i].updates = 1]
    IN  IF HoldsToken(H, i)
        THEN [H1 EXCEPT !.pose = Between(H.tweens[i].start, H.tweens[i].end)]
        ELSE H1

\* the last frame of the hover tween i: update(1), deregistration, complete()
HoverComplete(H, i) ==
    LET H1 == [H EXCEPT !.tweens[i].registered = FALSE,
                        !.tweens[i].landed = H.landed + 1,
                        !.landed = @ + 1]
    IN  IF HoldsToken(H, i)
        THEN [H1 EXCEPT !.pose = H.tweens[i].end]
        ELSE H1

(***************************************************************************)
(* One reveal-all cascade with time: the setTimeout calls of               *)
(* revealAllTiles and of the revealTileWithFlip calls they make.  A timer  *)
(* fires once it is due, the timer due first going first and, of two       *)
(* timers due together, the one set first; it may fire late.               *)
(***************************************************************************)
NoStagger ==
    [computed |-> FALSE, revealAllIntervalDelay |-> 0, flipDelayMin |-> 0,
     at |-> 0, size |-> 0, timers |-> {}, set |-> 0, starts |-> <<>>]

\* setTimeout(callback, delay) at time clock
SetTimeout(C, clock, delay, kind, idx) ==
    [C EXCEPT !.timers = @ \cup {[due |-> clock + Max2(delay, 0), seq |-> C.set,
                                  delay |-> delay, kind |-> kind, idx |-> idx]},
              !.set = @ + 1]

\* a faulty variant: the first tile waits longest
StaggerDelayBackwards(interval, idx) == interval * (MaxStagger - idx)

\* revealAllIntervalDelay * idx
StaggerDelay(interval, idx) == interval * idx

\* unrevealed.forEach((t, idx) => setTimeout(..., revealAllIntervalDelay * idx))
RECURSIVE StaggerFrom(_, _, _)
StaggerFrom(C, clock, idx) ==
    IF idx >= C.size THEN C
    ELSE StaggerFrom(SetTimeout(C, clock,
                                StaggerDelay(C.revealAllIntervalDelay, idx),
                                "reveal", idx),
                     clock, idx + 1)

\* revealAllTiles over `size` unrevealed tiles
RevealAllStaggered(interval, delayMin, size, clock) ==
    StaggerFrom([NoStagger EXCEPT !.computed = TRUE,
                                  !.revealAllIntervalDelay = interval,
                                  !.flipDelayMin = delayMin,
                                  !.at = clock, !.size = size],
                clock, 0)

\* the timer that fires next
Earlier(a, b) == a.due < b.due \/ (a.due = b.due /\ a.seq < b.seq)
NextTimer(C) == CHOOSE k \in C.timers : \A o \in C.timers \ {k} : Earlier(k, o)

\* the callback of a timer of revealAllTiles: revealTileWithFlip(t, face, false),
\* which returns at its guard (guarded) or sets the flip timer, of delay
\* flipDelayMin
RevealTimerFires(C, k, clock, guarded) ==
    LET C1 == [C EXCEPT !.timers = @ \ {k}]
    IN  IF guarded THEN C1
        ELSE SetTimeout(C1, clock, C.flipDelayMin, "flip", k.idx)

\* the callback of the flip timer: the flip of tile k.idx starts
FlipTimerStarts(C, k, clock) ==
    [C EXCEPT !.timers = @ \ {k},
              !.starts = Append(@, [idx |-> k.idx, at |-> clock])]

\* the flip delays of a board on which revealTileWithFlip was not called yet
NoDelays ==
    [created |-> FALSE, flipDelayMin |-> 0, flipDelayMax |-> 0, total |-> 1,
     revealed |-> 0, log |-> <<>>]

(***************************************************************************)
(* Inputs.                                                                 *)
(***************************************************************************)
\* values of opts.mines, which createMinesGame clamps as they are: out of
\* range on both sides, in range, and the default 5
OptMines == {-7, 0, 1, 2, 3, 4, 5, 9, 24, 30}

\* the values of opts.mines the engine specification starts from
FewOptMines == {0, 2, 5}

\* arguments of setMines: in range, out of range on both sides, and beyond
\* 32 bits (2^31, 2^32 + 3, -(2^32) + 2)
MinesArgs ==
    {IntArg(0, v) : v \in {0, 1, 2, 3, 4, 9, 24, 30}}
        \cup {IntArg(-1, Half - 1), IntArg(-1, Half - 7),
              IntArg(Half \div 2, 0), IntArg(Half, 3), IntArg(-Half, 2)}

\* the arguments of setMines in the engine specification
FewMinesArgs ==
    {IntArg(0, 0), IntArg(0, 2), IntArg(0, 9), IntArg(-1, Half - 7), IntArg(Half, 2)}

NoArg == IntArg(0, 0)

\* the call a step served: its name, the tile of a tap or a confirm, the
\* argument of setMines.  A timer or tween callback, and a call that returned
\* early, leave "idle".
Did(op, t, n) == [op |-> op, tile |-> t, n |-> n]
Idle == Did("idle", NoTile, NoArg)

(***************************************************************************)
(* Initial state: createMinesGame has built the board (the first           *)
(* resizeSquare call) and returned.                                        *)
(***************************************************************************)
\* no second engine is run
NoTwin == <<>>

\* the state createMinesGame returns with
Constructed(grids, optMines) ==
    /\ GRID \in grids
    /\ wiggleSelectionEnabled \in BOOLEAN
    /\ \E m \in optMines : mines = ClampMines(m, GRID)
    /\ totalSafe = GRID * GRID - mines
    /\ revealedSafe = 0
    /\ gameOver = FALSE
    /\ waitingForChoice = FALSE
    /\ selectedTile = NoTile
    /\ tiles = [i \in TileIds(GRID) |-> FreshTile]
    /\ timers = EmptyBag
    /\ cascades = EmptyBag
    /\ cflips = <<>>
    /\ tweens = EmptyBag
    /\ onWinCalls = 0
    /\ onGameOverCalls = 0
    /\ calls = <<>>
    /\ bombPositions = {}
    /\ last = Idle
    /\ bombConfirmed = FALSE
    /\ taps = 0
    /\ rebuilds = 0
    /\ now = 0
    /\ frames = 0
    /\ ticker = <<>>
    /\ hover = NoHover
    /\ stagger = NoStagger
    /\ delays = NoDelays

InitWith(grids, optMines) == Constructed(grids, optMines) /\ twin = NoTwin

Init == InitWith(Grids, FewOptMines)

(***************************************************************************)
(* Actions: one per handler.                                               *)
(***************************************************************************)
TapWith(cap) ==
    \E t \in DOMAIN tiles :
        \E reply \in IF TapRejected(State, t) THEN {"later"} ELSE HostReplies :
            /\ TapRejected(State, t) \/ taps < cap
            /\ Becomes(PointerTap(State, t, reply))
            /\ last' = IF TapRejected(State, t) THEN Idle ELSE Did("tap", t, NoArg)
            /\ bombConfirmed' =
                  (bombConfirmed \/ (~TapRejected(State, t) /\ reply = "bomb"))
            /\ taps' = IF TapRejected(State, t) THEN taps ELSE taps + 1
            /\ UNCHANGED rebuilds

Tap == TapWith(MaxTaps)

ConfirmSafe ==
    /\ Becomes(SetSelectedCardIsDiamond(State))
    /\ last' = IF ConfirmAccepted(StopSelectedAnimations(State))
               THEN Did("confirmSafe", selectedTile, NoArg) ELSE Idle
    /\ UNCHANGED <<bombConfirmed, taps, rebuilds>>

ConfirmBomb ==
    /\ Becomes(SetSelectedCardIsBomb(State))
    /\ last' = IF ConfirmAccepted(StopSelectedAnimations(State))
               THEN Did("confirmBomb", selectedTile, NoArg) ELSE Idle
    /\ bombConfirmed' = (bombConfirmed \/ ConfirmAccepted(StopSelectedAnimations(State)))
    /\ UNCHANGED <<taps, rebuilds>>

FireFlipTimer ==
    \E k \in BagToSet(timers) :
        /\ Becomes(FlipTimerFires(State, k))
        /\ last' = Idle
        /\ UNCHANGED <<bombConfirmed, taps, rebuilds>>

FireCascadeTimer ==
    \E q \in BagToSet(cascades) :
        /\ Becomes(CascadeTimerFires(State, q))
        /\ last' = Idle
        /\ UNCHANGED <<bombConfirmed, taps, rebuilds>>

FireCascadeFlip ==
    /\ cflips # <<>>
    /\ Becomes(CascadeFlipFires(State))
    /\ last' = Idle
    /\ UNCHANGED <<bombConfirmed, taps, rebuilds>>

FlipCompletes ==
    \E w \in BagToSet(tweens) :
        /\ Becomes(FlipComplete(State, w))
        /\ last' = Idle
        /\ UNCHANGED <<bombConfirmed, taps, rebuilds>>

WiggleCompletes ==
    \E t \in DOMAIN tiles :
        /\ tiles[t].wiggle
        /\ Becomes(WiggleComplete(State, t))
        /\ last' = Idle
        /\ UNCHANGED <<bombConfirmed, taps, rebuilds>>

\* the host callback counters count per game: reset() starts a new one
NewGame(S) == [S EXCEPT !.onWinCalls = 0, !.onGameOverCalls = 0]

Reset ==
    /\ rebuilds < MaxRebuilds
    /\ Becomes(NewGame(ResetGame(State)))
    /\ last' = Did("reset", NoTile, NoArg)
    /\ bombConfirmed' = FALSE
    /\ rebuilds' = rebuilds + 1
    /\ UNCHANGED taps

SetMinesFrom(args) ==
    \E n \in args :
        /\ rebuilds < MaxRebuilds
        /\ Becomes(NewGame(SetMinesTo(State, n)))
        /\ last' = Did("setMines", NoTile, n)
        /\ bombConfirmed' = FALSE
        /\ rebuilds' = rebuilds + 1
        /\ UNCHANGED taps

SetMines == SetMinesFrom(FewMinesArgs)

\* the ResizeObserver callback
Resize ==
    /\ rebuilds < MaxRebuilds
    /\ Becomes(ResizeSquare(State))
    /\ last' = Did("resize", NoTile, NoArg)
    /\ UNCHANGED <<bombConfirmed, taps>>
    /\ rebuilds' = rebuilds + 1

Next ==
    \/ Tap
    \/ ConfirmSafe
    \/ ConfirmBomb
    \/ FireFlipTimer
    \/ FireCascadeTimer
    \/ FireCascadeFlip
    \/ FlipCompletes
    \/ WiggleCompletes
    \/ Reset
    \/ SetMines
    \/ Resize

Spec == Init /\ [][Next]_vars

(***************************************************************************)
(* One board: no reset, setMines or resize, one more tap.                  *)
(***************************************************************************)
BoardTap == TapWith(MaxBoardTaps)

NextBoard ==
    \/ BoardTap
    \/ ConfirmSafe
    \/ ConfirmBomb
    \/ FireFlipTimer
    \/ FireCascadeTimer
    \/ FireCascadeFlip
    \/ FlipCompletes
    \/ WiggleCompletes

SpecBoard == Init /\ [][NextBoard]_vars

(***************************************************************************)
(* One board with progress: a timer that was set fires, and the ticker     *)
(* runs every registered tween to its completion.  The player and the host *)
(* owe nothing: no tap and no confirm is ever forced.                      *)
(***************************************************************************)
Scheduled ==
    \/ FireFlipTimer
    \/ FireCascadeTimer
    \/ FireCascadeFlip
    \/ FlipCompletes
    \/ WiggleCompletes

Progresses == WF_vars(Scheduled)

SpecFair == Init /\ [][NextBoard]_vars /\ Progresses

\* the same with MaxTaps taps
NextShort ==
    \/ Tap
    \/ ConfirmSafe
    \/ ConfirmBomb
    \/ FireFlipTimer
    \/ FireCascadeTimer
    \/ FireCascadeFlip
    \/ FlipCompletes
    \/ WiggleCompletes

SpecFairShort == Init /\ [][NextShort]_vars /\ Progresses

(***************************************************************************)
(* The mine count alone: every grid size up to MaxClampGrid, every         *)
(* argument of MinesArgs.                                                  *)
(***************************************************************************)
InitClamp == InitWith(1 .. MaxClampGrid, OptMines)

SetAnyMines == SetMinesFrom(MinesArgs)

NextClamp == SetAnyMines \/ Reset

SpecClamp == InitClamp /\ [][NextClamp]_vars

(***************************************************************************)
(* The tween scheduler: tween(app, {duration, update, complete, ease}).    *)
(* The engine does not move in this specification.                         *)
(***************************************************************************)
engine == <<GRID, wiggleSelectionEnabled, mines, totalSafe, revealedSafe, gameOver,
            waitingForChoice, selectedTile, tiles, timers, cascades, cflips, tweens,
            onWinCalls, onGameOverCalls, calls, bombPositions, last, bombConfirmed,
            taps, rebuilds, twin>>

\* a progress: the fraction num / den, and 0 / 0 for NaN
Fraction(num, den) == [num |-> num, den |-> den]
NaN == Fraction(0, 0)

\* t = Math.min(1, (performance.now() - start) / duration): x / 0 is Infinity
\* and clamped to 1, 0 / 0 is NaN and Math.min(1, NaN) is NaN
Progress(elapsed, duration) ==
    IF duration = 0
    THEN IF elapsed = 0 THEN NaN ELSE Fraction(1, 1)
    ELSE Fraction(Min2(elapsed, duration), duration)

\* t >= 1, false of NaN
AtLeastOne(t) == t.den > 0 /\ t.num >= t.den

\* 0 <= t <= 1, false of NaN
InUnit(t) == t.den > 0 /\ 0 <= t.num /\ t.num <= t.den

\* values of opts.flipEaseFunction, "ease method's name from ease.js": the
\* default, the other name easeFlip knows, and a name it does not know
FlipEaseFunctions == {"easeInOutSine", "easeInOutBack", "easeOutQuad"}

\* Ease.easeInOutSine(t) >= 0.5 and Ease.easeInOutBack(t) >= 0.5: both curves
\* pass 0.5 at the midpoint t = 0.5 and stay at or above it
EaseAtLeastHalf(t) == t.den > 0 /\ 2 * t.num >= t.den

\* easeFlip(t) >= 0.5: the switch returns undefined for any other name, and
\* undefined >= 0.5 is false
EaseFlipAtLeastHalf(flipEaseFunction, t) ==
    CASE flipEaseFunction = "easeInOutBack" -> EaseAtLeastHalf(t)
      [] flipEaseFunction = "easeInOutSine" -> EaseAtLeastHalf(t)
      [] OTHER -> FALSE

\* the tweens of the scheduler specification: one with the default ease and
\* no face to swap (wiggle), and the flip under each flipEaseFunction
TweenKinds ==
    {[flip |-> FALSE, flipEaseFunction |-> "none"]}
        \cup {[flip |-> TRUE, flipEaseFunction |-> e] : e \in FlipEaseFunctions}

Durations == 0 .. MaxDuration

\* tween(): start = performance.now(); app.ticker.add(step).  born is the
\* number of frames run before, updates / completes / swaps count the calls of
\* update, of complete and the face swaps, halves the updates whose eased
\* progress was >= 0.5, t is the progress of the last step, faceAtComplete
\* the swapped flag complete() found.
NewTween(start, duration, kind, born) ==
    [start |-> start, duration |-> duration, flip |-> kind.flip,
     flipEaseFunction |-> kind.flipEaseFunction, born |-> born,
     registered |-> TRUE, t |-> Fraction(0, 1), updates |-> 0, completes |-> 0,
     swapped |-> FALSE, swaps |-> 0, halves |-> 0, faceAtComplete |-> FALSE]

\* update?.(ease(t)), and for a flip: if (!swapped && t >= 0.5) swapped = true
Update(tw, t) ==
    LET half == tw.flip /\ EaseFlipAtLeastHalf(tw.flipEaseFunction, t)
        swap == half /\ ~tw.swapped
    IN  [tw EXCEPT !.t = t, !.updates = @ + 1,
                   !.halves = @ + (IF half THEN 1 ELSE 0),
                   !.swapped = @ \/ swap,
                   !.swaps = @ + (IF swap THEN 1 ELSE 0)]

\* if (t >= 1) { app.ticker.remove(step); complete?.(); }
Finish(tw) ==
    IF AtLeastOne(tw.t)
    THEN [tw EXCEPT !.registered = FALSE, !.completes = @ + 1,
                    !.faceAtComplete = tw.swapped]
    ELSE tw

\* step, run by the ticker at the clock reading `clock`
Step(tw, clock) == Finish(Update(tw, Progress(clock - tw.start, tw.duration)))

InitTween ==
    /\ InitWith(Grids, {2})
    /\ wiggleSelectionEnabled

StartTween ==
    \E d \in Durations, kind \in TweenKinds :
        /\ Len(ticker) < MaxTweens
        /\ ticker' = Append(ticker, NewTween(now, d, kind, frames))
        /\ UNCHANGED <<now, frames, hover, stagger, delays>>
        /\ UNCHANGED engine

\* time passes between two callbacks
Elapse ==
    /\ now < MaxTime
    /\ now' = now + 1
    /\ UNCHANGED <<frames, ticker, hover, stagger, delays>>
    /\ UNCHANGED engine

\* one frame of the ticker: the step of every registered tween
Frame ==
    /\ frames < MaxFrames
    /\ frames' = frames + 1
    /\ ticker' = [i \in DOMAIN ticker |->
                     IF ticker[i].registered THEN Step(ticker[i], now) ELSE ticker[i]]
    /\ UNCHANGED <<now, hover, stagger, delays>>
    /\ UNCHANGED engine

NextTween ==
    \/ StartTween
    \/ Elapse
    \/ Frame

SpecTween == InitTween /\ [][NextTween]_vars

(***************************************************************************)
(* The hover specification: the pointer enters and leaves the tile, the    *)
(* tile's flip starts and lands, and the hover tweens step in any order    *)
(* (enter and exit have their own durations).  The engine does not move.   *)
(***************************************************************************)
scheduler == <<now, frames, ticker, stagger, delays>>

\* the callers of hoverTile (pointerover, pointerout, pointertap,
\* clearSelection) all return on a revealed tile
PointerHover ==
    \E on \in BOOLEAN :
        /\ Len(hover.tweens) < MaxHovers
        /\ ~hover.revealed
        /\ hover' = HoverTile(hover, on)
        /\ UNCHANGED engine
        /\ UNCHANGED scheduler

\* the setTimeout callback of revealTileWithFlip: stopHover(tile), _animating = true
HoverFlipStarts ==
    /\ ~hover.animating /\ ~hover.revealed
    /\ hover' = [StopHover(hover) EXCEPT !.animating = TRUE]
    /\ UNCHANGED engine
    /\ UNCHANGED scheduler

\* complete() of the flip: forceFlatPose(tile), _animating = false, revealed = true
HoverFlipLands ==
    /\ hover.animating
    /\ hover' = [ForceFlatPose(hover) EXCEPT !.animating = FALSE, !.revealed = TRUE]
    /\ UNCHANGED engine
    /\ UNCHANGED scheduler

HoverUpdates ==
    \E i \in DOMAIN hover.tweens :
        /\ hover.tweens[i].registered
        /\ hover.tweens[i].updates = 0
        /\ hover' = HoverUpdate(hover, i)
        /\ UNCHANGED engine
        /\ UNCHANGED scheduler

HoverCompletes ==
    \E i \in DOMAIN hover.tweens :
        /\ hover.tweens[i].registered
        /\ hover' = HoverComplete(hover, i)
        /\ UNCHANGED engine
        /\ UNCHANGED scheduler

InitHover ==
    /\ InitWith(Grids, {2})
    /\ wiggleSelectionEnabled

NextHover ==
    \/ PointerHover
    \/ HoverFlipStarts
    \/ HoverFlipLands
    \/ HoverUpdates
    \/ HoverCompletes

SpecHover == InitHover /\ [][NextHover]_vars

(***************************************************************************)
(* Properties.                                                             *)
(***************************************************************************)
\* what a tap on tile t leaves of the selection state and the tapped flags
TapLeaves(S, t, reply) ==
    LET T == PointerTap(S, t, reply)
    IN  /\ T.waitingForChoice = S.waitingForChoice
        /\ T.selectedTile = S.selectedTile
        /\ \A i \in DOMAIN S.tiles : T.tiles[i].taped = S.tiles[i].taped

\* tile t would take a tap, were the game running with no selection pending
Tappable(S, t) ==
    /\ ~S.tiles[t].revealed
    /\ ~S.tiles[t].animating
    /\ UntapedCount(S) > S.mines

\* C1: once confirmBomb was accepted (called by the host later, or from inside
\* onCardSelected), gameOver is true in the state the call returns to and in
\* every state until reset() or setMines(), and in all those states a tap on
\* any tile changes neither waitingForChoice, nor selectedTile, nor any
\* tile's tapped flag.
C1_BombEndsTheGame ==
    bombConfirmed =>
        /\ gameOver
        /\ \A t \in DOMAIN tiles, reply \in HostReplies : TapLeaves(State, t, reply)

\* the bomb was just confirmed, its flip timer has not fired, and another
\* tile would still take a tap if the game were running
C1_Witness ==
    /\ last.op = "confirmBomb"
    /\ FlipTimer(last.tile, "bomb") \in BagToSet(timers)
    /\ ~tiles[last.tile].revealed /\ tiles[last.tile].started = 0
    /\ \E t \in DOMAIN tiles : t # last.tile /\ ~tiles[t].taped /\ Tappable(State, t)

\* C2: while waitingForChoice is true, a tap on any tile, the selected one or
\* another, changes nothing: not waitingForChoice, not selectedTile, not a
\* tapped flag, and onCardSelected is not invoked.
C2_TapWhileWaitingIsNoOp ==
    waitingForChoice =>
        \A t \in DOMAIN tiles, reply \in HostReplies :
            /\ TapLeaves(State, t, reply)
            /\ PointerTap(State, t, reply).calls = <<>>
            /\ PointerTap(State, t, reply) = State

\* a selection is pending on a running game while another tile would
\* otherwise take a tap
C2_Witness ==
    /\ waitingForChoice /\ ~gameOver /\ selectedTile # NoTile
    /\ last = Idle
    /\ \E t \in DOMAIN tiles :
          t # selectedTile /\ ~tiles[t].taped /\ Tappable(State, t)

\* C3: revealedSafe <= totalSafe in every reachable state.
C3_RevealedWithinTotal == revealedSafe <= totalSafe

\* C4: on one board no tile's flip is started more than once or completed
\* more than once, and no tile adds more than 1 to revealedSafe.
C4_NoDoubleReveal ==
    \A t \in DOMAIN tiles :
        tiles[t].started <= 1 /\ tiles[t].done <= 1 /\ tiles[t].adds <= 1

\* tiles whose confirmed safe reveal has completed
SafelyRevealed == {t \in DOMAIN tiles : tiles[t].adds >= 1}

\* no reveal of the player is pending
PlayerQuiet == timers = EmptyBag /\ PlayerTweens(tweens) = EmptyBag

\* C5: the host has confirmed no bomb; once totalSafe distinct tiles have been
\* tapped and confirmed safe and every flip of the player has completed, the
\* game is over, revealedSafe = totalSafe and onWin was invoked exactly once.
C5_SafeHostWinsOnce ==
    (~bombConfirmed /\ PlayerQuiet /\ Cardinality(SafelyRevealed) >= totalSafe) =>
        /\ gameOver
        /\ revealedSafe = totalSafe
        /\ onWinCalls = 1

\* C6: right after an accepted confirmSafe, a second confirmSafe changes no
\* state and schedules nothing.
C6_SecondConfirmSafeIsNoOp ==
    last.op = "confirmSafe" => SetSelectedCardIsDiamond(State) = State

\* confirmSafe was just accepted: one flip timer of the tile is pending
C6_Witness ==
    /\ last.op = "confirmSafe"
    /\ CopiesIn(FlipTimer(last.tile, "diamond"), timers) = 1
    /\ ~tiles[last.tile].revealed

\* C7: once a bomb is confirmed, onGameOver is invoked at most once and onWin
\* is not invoked, until reset().
C7_BombNeverWins ==
    /\ [](onGameOverCalls <= 1)
    /\ [][bombConfirmed /\ bombConfirmed' => onWinCalls' = onWinCalls]_vars

\* C8: an accepted tap invokes onCardSelected exactly once, with the row and
\* col of the tapped tile, while waitingForChoice is true and selectedTile is
\* that tile; a rejected tap does not invoke it.
C8_OneCallPerAcceptedTap ==
    /\ last.op = "tap" =>
          calls = <<[row |-> Row(last.tile), col |-> Col(last.tile),
                     waitingForChoice |-> TRUE, selectedTile |-> last.tile]>>
    /\ \A t \in DOMAIN tiles, reply \in HostReplies :
          TapRejected(State, t) => PointerTap(State, t, reply).calls = <<>>

\* a tap on a tile whose row and col differ was just accepted, while another
\* tile rejects a tap
C8_Witness ==
    /\ last.op = "tap"
    /\ Len(calls) = 1
    /\ Row(last.tile) # Col(last.tile)
    /\ \E t \in DOMAIN tiles : TapRejected(State, t)

\* C9: getState() right after reset() reports revealedSafe = 0, gameOver =
\* false, waitingForChoice = false and no selected tile.
C9_ResetClears ==
    last.op = "reset" =>
        /\ GetState(State).revealedSafe = 0
        /\ GetState(State).gameOver = FALSE
        /\ GetState(State).waitingForChoice = FALSE
        /\ GetState(State).selectedTile = <<>>

\* reset() was called while a confirmed bomb of the previous board was still
\* to land
C9_Witness ==
    /\ last.op = "reset"
    /\ FlipTween(NoTile, "bomb", TRUE) \in BagToSet(tweens)

\* C10 as stated: after setMines(n), 1 <= mines <= GRID * GRID - 1, for every
\* grid size and every integer n.
C10_MinesInRange ==
    last.op = "setMines" => (1 <= mines /\ mines <= GRID * GRID - 1)

\* C10 amended: after setMines(n) on a grid of size 2 or more,
\* 1 <= mines <= GRID * GRID - 1, for every integer n; on a grid of size 1
\* the mine count is 1.
C10_MinesInRangeFromGrid2 ==
    last.op = "setMines" =>
        IF GRID >= 2 THEN 1 <= mines /\ mines <= GRID * GRID - 1 ELSE mines = 1

\* setMines was called with an argument above the range, and one below it
C10_Witness ==
    /\ last.op = "setMines"
    /\ GRID >= 2
    /\ \/ ToInt32(last.n) > GRID * GRID - 1 /\ mines = GRID * GRID - 1
       \/ ToInt32(last.n) < 1 /\ mines = 1

\* C11: in every reachable state waitingForChoice is true exactly when
\* selectedTile is a tile (non-null).
C11_WaitingIffSelected == waitingForChoice <=> (selectedTile # NoTile)

\* a selection is pending on the board built by a reset, setMines or resize,
\* while a reveal of the previous board is still to complete
C11_Witness ==
    /\ waitingForChoice /\ selectedTile # NoTile
    /\ rebuilds >= 1
    /\ tweens # EmptyBag

\* C12: whenever waitingForChoice is true, the selected tile is unrevealed
\* and its animating flag is false, the selection wiggle and the timers and
\* tweens of that tile included.
C12_SelectedTileIsStill ==
    (waitingForChoice /\ selectedTile # NoTile) =>
        /\ ~tiles[selectedTile].revealed
        /\ ~tiles[selectedTile].animating

\* tiles of the board that took a tap
Taped(S) == {i \in DOMAIN S.tiles : S.tiles[i].taped}

\* C13: a tap is accepted (Idle to WaitingForChoice) only if gameOver is
\* false, no selection is pending, the tile is unrevealed and not animating
\* and more tiles are untapped than there are mines; so the tapped tiles of a
\* board never exceed totalSafe, and no tap is accepted once only `mines`
\* untapped tiles remain.
C13_TapGuard ==
    /\ [][last'.op = "tap" =>
            /\ ~gameOver
            /\ ~waitingForChoice
            /\ ~tiles[last'.tile].revealed
            /\ ~tiles[last'.tile].animating
            /\ UntapedCount(State) > mines]_vars
    /\ [](Cardinality(Taped(State)) <= totalSafe)
    /\ [](UntapedCount(State) <= mines =>
            \A t \in DOMAIN tiles, reply \in HostReplies :
                PointerTap(State, t, reply) = State)

\* totalSafe tiles were tapped and only `mines` untapped tiles remain, while
\* the game runs, nothing is selected and an untapped tile is neither
\* revealed nor animating
C13_Witness ==
    /\ Cardinality(Taped(State)) = totalSafe
    /\ UntapedCount(State) = mines
    /\ ~gameOver /\ ~waitingForChoice
    /\ \E t \in DOMAIN tiles :
          ~tiles[t].taped /\ ~tiles[t].revealed /\ ~tiles[t].animating

\* C14: with no selection pending, confirmSafe() and confirmBomb() return
\* without changing anything: getState(), every tile's revealed and animating
\* flags and the scheduled timers and tweens are what they were.
C14_ConfirmWithoutSelectionIsNoOp ==
    ~waitingForChoice =>
        /\ SetSelectedCardIsDiamond(State) = State
        /\ SetSelectedCardIsBomb(State) = State

\* a bomb was just confirmed: the game is over, nothing is selected, the
\* bomb's flip timer is pending and the flip of another tile is in flight
C14_Witness ==
    /\ last.op = "confirmBomb"
    /\ gameOver /\ ~waitingForChoice /\ selectedTile = NoTile
    /\ FlipTimer(last.tile, "bomb") \in BagToSet(timers)
    /\ \E t \in DOMAIN tiles : t # last.tile /\ tiles[t].animating

\* a flip of tile t has started and has not completed
FlipInFlight(S, t) == S.tiles[t].started > S.tiles[t].done

\* C15: a tap on a tile whose flip is in flight is ignored: it changes no
\* state, does not invoke onCardSelected and is not queued.
C15_TapDuringFlipIgnored ==
    \A t \in DOMAIN tiles, reply \in HostReplies :
        FlipInFlight(State, t) => PointerTap(State, t, reply) = State

\* C16 as stated: with one safe tile (mines = GRID * GRID - 1), right after
\* an accepted confirmSafe() returns, gameOver is true and revealedSafe = 1.
C16_SingleSafeWinsAtConfirm ==
    (totalSafe = 1 /\ last.op = "confirmSafe") => (gameOver /\ revealedSafe = 1)

\* C16 amended: with one safe tile and no bomb confirmed, the game is won
\* when the flip of the confirmed tile completes and not before: until then
\* gameOver is false and revealedSafe = 0, the state confirmSafe() returns
\* to included; from then on gameOver is true, revealedSafe = 1 and onWin
\* was invoked once.
C16_SingleSafeWinsAtLanding ==
    (totalSafe = 1 /\ ~bombConfirmed) =>
        IF SafelyRevealed = {}
        THEN ~gameOver /\ revealedSafe = 0 /\ onWinCalls = 0
        ELSE gameOver /\ revealedSafe = 1 /\ onWinCalls = 1

\* the one safe tile of the board was tapped and confirmed safe, and its
\* flip has completed
C16_Witness ==
    /\ totalSafe = 1 /\ mines = GRID * GRID - 1 /\ ~bombConfirmed
    /\ \E t \in DOMAIN tiles :
          tiles[t].taped /\ tiles[t].revealed /\ tiles[t].adds = 1
    /\ gameOver /\ revealedSafe = 1

\* C17: within a game, that is but for reset() and setMines(), no step
\* lowers revealedSafe: no tap, confirm, timer, tween or host resize.
C17_RevealedNeverDecreases ==
    [][last'.op \notin {"reset", "setMines"} => revealedSafe' >= revealedSafe]_vars

\* C18: while the host answers a selection with neither confirm, every step
\* but reset() and setMines() keeps waitingForChoice true and selectedTile
\* on the tapped tile, and rejects every tap.
C18_SelectionHeldUntilReset ==
    [][(waitingForChoice
        /\ last'.op \notin {"confirmSafe", "confirmBomb", "reset", "setMines"}) =>
            /\ waitingForChoice'
            /\ selectedTile' = selectedTile
            /\ last'.op # "tap"]_vars

\* what holds of the tween i between two callbacks
TweenContract(i) ==
    LET tw == ticker[i]
    IN  /\ tw.updates >= 1 => InUnit(tw.t)
        /\ tw.registered =>
              /\ tw.completes = 0
              /\ tw.updates = frames - tw.born
              /\ tw.updates >= 1 => ~AtLeastOne(tw.t)
        /\ ~tw.registered =>
              /\ tw.completes = 1
              /\ tw.updates >= 1
              /\ tw.t = Fraction(tw.duration, tw.duration)

\* what a step does to the tween i: a frame updates it with the progress of
\* its own start and duration whatever other tweens run, and nothing touches
\* it once it is deregistered
TweenStep(i) ==
    LET tw == ticker[i]
    IN  IF tw.registered
        THEN frames' = frames + 1 =>
                /\ ticker'[i].updates = tw.updates + 1
                /\ ticker'[i].t = Progress(now - tw.start, tw.duration)
        ELSE ticker'[i] = tw

\* C19: every tween calls update on each frame with a progress
\* clamped to [0,1], calls update with progress 1 on its last frame, then
\* completes exactly once and is deregistered, after which neither update nor
\* complete is invoked again; concurrent tweens neither delay nor suppress
\* one another.
C19_EveryTweenCompletesOnce ==
    /\ [](\A i \in DOMAIN ticker : TweenContract(i))
    /\ [][\A i \in DOMAIN ticker : TweenStep(i)]_vars

\* the same of the tweens of a positive duration: it holds
PositiveTweenCompletesOnce ==
    /\ [](\A i \in DOMAIN ticker : ticker[i].duration > 0 => TweenContract(i))
    /\ [][\A i \in DOMAIN ticker : ticker[i].duration > 0 => TweenStep(i)]_vars

\* C20: in every flip the face is swapped exactly once, at the first frame
\* whose eased progress is >= 0.5, and before the completion handler runs,
\* whatever the number and spacing of the frames.
C20_FaceSwappedOnce ==
    \A i \in DOMAIN ticker :
        ticker[i].flip =>
            /\ ticker[i].swaps = (IF ticker[i].halves >= 1 THEN 1 ELSE 0)
            /\ ticker[i].completes >= 1 =>
                  ticker[i].swaps = 1 /\ ticker[i].faceAtComplete

\* the same of the flips under the two names easeFlip knows: it holds
KnownEaseFaceSwappedOnce ==
    \A i \in DOMAIN ticker :
        (ticker[i].flip
         /\ ticker[i].flipEaseFunction \in {"easeInOutSine", "easeInOutBack"}) =>
            /\ ticker[i].swaps = (IF ticker[i].halves >= 1 THEN 1 ELSE 0)
            /\ ticker[i].completes >= 1 =>
                  ticker[i].swaps = 1 /\ ticker[i].faceAtComplete

\* the hover tween i has lost the token
Superseded(i) == hover.token # i

StaggerRevealAll ==
    /\ ~stagger.computed
    /\ \E interval \in 0 .. MaxDelay, delayMin \in 0 .. MaxDelay,
          size \in 1 .. MaxStagger :
            stagger' = RevealAllStaggered(interval, delayMin, size, now)
    /\ UNCHANGED <<now, frames, ticker, hover, delays>>
    /\ UNCHANGED engine

StaggerTimerFires ==
    /\ stagger.timers # {}
    /\ NextTimer(stagger).due <= now
    /\ LET k == NextTimer(stagger)
       IN  IF k.kind = "reveal"
           THEN \E guarded \in BOOLEAN :
                    stagger' = RevealTimerFires(stagger, k, now, guarded)
           ELSE stagger' = FlipTimerStarts(stagger, k, now)
    /\ UNCHANGED <<now, frames, ticker, hover, delays>>
    /\ UNCHANGED engine

StaggerElapse ==
    /\ now < MaxStaggerTime
    /\ now' = now + 1
    /\ UNCHANGED <<frames, ticker, hover, stagger, delays>>
    /\ UNCHANGED engine

InitStagger == InitWith(Grids, {2}) /\ ~wiggleSelectionEnabled

NextStagger == StaggerRevealAll \/ StaggerTimerFires \/ StaggerElapse

SpecStagger == InitStagger /\ [][NextStagger]_vars

(***************************************************************************)
(* The delay of a flip: revealTileWithFlip up to its setTimeout, on one    *)
(* board of `total` tiles of which `revealed` are revealed.  A delay is a  *)
(* fraction of denominator `total`.                                        *)
(***************************************************************************)
\* a faulty variant: the delay falls from flipDelayMax to flipDelayMin
FlipDelayFalling(delayMin, delayMax, revealed, total, revealedByPlayer) ==
    IF revealedByPlayer
    THEN Fraction(delayMax * total - (delayMax - delayMin) * Min2(revealed, total),
                  total)
    ELSE Fraction(delayMin * total, total)

\* progress = Math.min(1, revealedCount / tiles.length);
\* flipDelay = revealedByPlayer
\*     ? flipDelayMin + (flipDelayMax - flipDelayMin) * progress : flipDelayMin
FlipDelay(delayMin, delayMax, revealed, total, revealedByPlayer) ==
    IF revealedByPlayer
    THEN Fraction(delayMin * total + (delayMax - delayMin) * Min2(revealed, total),
                  total)
    ELSE Fraction(delayMin * total, total)

\* revealTileWithFlip past its guard: the delay it passes to setTimeout
DelayLogged(D, revealedByPlayer) ==
    [D EXCEPT !.log = Append(@,
        [revealed |-> D.revealed, revealedByPlayer |-> revealedByPlayer,
         flipDelay |-> FlipDelay(D.flipDelayMin, D.flipDelayMax, D.revealed,
                                 D.total, revealedByPlayer)])]

(***************************************************************************)
(* The flip delays of one board.  The engine does not move in this         *)
(* specification; flipDelayMin and flipDelayMax are drawn when the game is *)
(* created.                                                                *)
(***************************************************************************)
DelayCreateGame ==
    /\ ~delays.created
    /\ \E delayMin \in 0 .. MaxDelay, delayMax \in 0 .. MaxDelay :
          delays' = [NoDelays EXCEPT !.created = TRUE,
                                     !.flipDelayMin = delayMin,
                                     !.flipDelayMax = delayMax,
                                     !.total = GRID * GRID]
    /\ UNCHANGED <<now, frames, ticker, hover, stagger>>
    /\ UNCHANGED engine

\* revealTileWithFlip is called, by a confirm or by a timer of revealAllTiles
DelayReveal ==
    /\ delays.created
    /\ Len(delays.log) < MaxReveals
    /\ delays.revealed < delays.total
    /\ \E revealedByPlayer \in BOOLEAN :
          delays' = DelayLogged(delays, revealedByPlayer)
    /\ UNCHANGED <<now, frames, ticker, hover, stagger>>
    /\ UNCHANGED engine

\* a flip completes: tile.revealed = true
DelayTileRevealed ==
    /\ delays.created
    /\ delays.revealed < delays.total
    /\ delays' = [delays EXCEPT !.revealed = @ + 1]
    /\ UNCHANGED <<now, frames, ticker, hover, stagger>>
    /\ UNCHANGED engine

InitDelay == InitWith(Grids, {2}) /\ ~wiggleSelectionEnabled

NextDelay == DelayCreateGame \/ DelayReveal \/ DelayTileRevealed

SpecDelay == InitDelay /\ [][NextDelay]_vars

(***************************************************************************)
(* The faces of the reveal-all cascade.  Here a cascade timer and a        *)
(* cascade flip carry the face revealAllTiles computed for their tile, and *)
(* a tile records the face its flip gave it.  The shuffle of revealAllTiles *)
(* (Math.random) is the choice of the tiles it designates.                 *)
(***************************************************************************)
CascadeReveal(t, face) == [tile |-> t, face |-> face]

\* available.slice(0, bombsNeeded), for every outcome of the shuffle
BombChoices(S, triggeredBombTile) ==
    LET available == Unrevealed(S) \ {triggeredBombTile}
        bombsNeeded == S.mines - 1
    IN  {b \in SUBSET available :
            Cardinality(b) = Min2(bombsNeeded, Cardinality(available))}

\* revealAllTiles(triggeredBombTile), the shuffle designating bombTiles
RevealAllTilesAs(S, bombTiles) ==
    LET S1 == [S EXCEPT !.bombPositions = @ \cup bombTiles]
        order == Ascending(Unrevealed(S))
        call == [idx \in DOMAIN order |->
                    CascadeReveal(order[idx],
                                  IF order[idx] \in S1.bombPositions
                                  THEN "bomb" ELSE "diamond")]
    IN  IF order = <<>> THEN S1
        ELSE [S1 EXCEPT !.cascades = @ (+) One(call)]

\* the setTimeout callback of revealAllTiles, for the next tile of the call q
CascadeTimerFiresAs(S, q) ==
    LET rest == IF Len(q) > 1 THEN One(Tail(q)) ELSE EmptyBag
        S1 == [S EXCEPT !.cascades = (@ (-) One(q)) (+) rest]
        t == Head(q).tile
    IN  IF S1.tiles[t].animating \/ S1.tiles[t].revealed
        THEN S1
        ELSE [S1 EXCEPT !.cflips = Append(@, Head(q))]

\* the oldest flip timer of the reveals that are not the player's fires
CascadeFlipFiresAs(S) ==
    StartFlip([S EXCEPT !.cflips = Tail(@)], Head(S.cflips).tile,
              Head(S.cflips).face, FALSE)

\* the face swap of the tween w (icon.texture = bombTexture / diamondTexture
\* in the update that crosses half of the flip), recorded when the flip lands
FaceSwapped(S, w) ==
    IF OnBoard(w.tile) THEN [S EXCEPT !.tiles[w.tile].face = w.face] ELSE S

\* the state in which complete() of the tween w calls revealAllTiles, if it does
Landing(S, w) == FaceSwapped(FlipLanded([S EXCEPT !.tweens = @ (-) One(w)], w), w)

\* the last step of the tween: update(1), deregistration, complete()
FlipCompleteAs(S, w, bombTiles) ==
    LET S1 == Landing(S, w)
        S2 == CountSafe(S1, w)
    IN  CASE ~w.byPlayer -> S1
          [] w.face = "bomb" ->
                [RevealAllTilesAs(S1, bombTiles) EXCEPT !.onGameOverCalls = @ + 1]
          [] Won(S2) ->
                [RevealAllTilesAs(MarkGameOver(S2), bombTiles)
                    EXCEPT !.onWinCalls = @ + 1]
          [] OTHER -> S2

FaceCascadeTimer ==
    \E q \in BagToSet(cascades) :
        /\ Becomes(CascadeTimerFiresAs(State, q))
        /\ last' = Idle
        /\ UNCHANGED <<bombConfirmed, taps, rebuilds>>

FaceCascadeFlip ==
    /\ cflips # <<>>
    /\ Becomes(CascadeFlipFiresAs(State))
    /\ last' = Idle
    /\ UNCHANGED <<bombConfirmed, taps, rebuilds>>

FaceFlipCompletes ==
    \E w \in BagToSet(tweens) :
        \E bombTiles \in BombChoices(Landing(State, w),
                                     IF w.face = "bomb" THEN w.tile ELSE NoTile) :
            /\ Becomes(FlipCompleteAs(State, w, bombTiles))
            /\ last' = Idle
            /\ UNCHANGED <<bombConfirmed, taps, rebuilds>>

NextFaces ==
    \/ BoardTap
    \/ ConfirmSafe
    \/ ConfirmBomb
    \/ FireFlipTimer
    \/ FaceCascadeTimer
    \/ FaceCascadeFlip
    \/ FaceFlipCompletes
    \/ WiggleCompletes

SpecFaces == Init /\ [][NextFaces]_vars

\* C22: a wiggle completion that arrives while the flip of the same tile is
\* in flight does not clear the animating flag the flip holds: no tile whose
\* flip is in flight carries a wiggle tween that still holds the tile's token.
C22_WiggleCompletionSparesFlip ==
    \A t \in DOMAIN tiles :
        (FlipInFlight(State, t) /\ tiles[t].animating /\ tiles[t].wiggle)
            => WiggleComplete(State, t).tiles[t].animating

(***************************************************************************)
(* The calls of hoverTile on a tile of the board, by the handler that      *)
(* makes them, with hoverEnabled at its default (true).                    *)
(***************************************************************************)
\* hoverTile goes past its guard: if (!hoverEnabled || tile._animating) return
HoverTileRuns(S, t) == ~S.tiles[t].animating

\* pointerover calls hoverTile(t, true)
PointerOverHovers(S, t) ==
    /\ UntapedCount(S) > S.mines
    /\ ~S.gameOver
    /\ ~S.waitingForChoice
    /\ ~S.tiles[t].revealed
    /\ ~S.tiles[t].animating
    /\ S.selectedTile # t

\* pointerout calls hoverTile(t, false)
PointerOutHovers(S, t) ==
    /\ ~S.tiles[t].revealed
    /\ ~S.tiles[t].animating
    /\ S.selectedTile # t

\* pointertap calls hoverTile(t, false) once it is past its early return
PointerTapHovers(S, t) == ~TapRejected(S, t)

\* some pointer event on tile t starts a hover tween
HoverCanStart(S, t) ==
    /\ HoverTileRuns(S, t)
    /\ PointerOverHovers(S, t) \/ PointerOutHovers(S, t) \/ PointerTapHovers(S, t)

\* C23: no hover tween is started on a tile while the flip of that tile is in
\* flight or after the tile is revealed, whatever the interleaving of pointer
\* events, confirms, timers and frames.
C23_NoHoverOnFlippingOrRevealed ==
    \A t \in DOMAIN tiles :
        (FlipInFlight(State, t) \/ tiles[t].revealed) => ~HoverCanStart(State, t)

\* no timer is pending and no flip tween is running
Settled ==
    /\ timers = EmptyBag
    /\ cascades = EmptyBag
    /\ cflips = <<>>
    /\ tweens = EmptyBag

Showing(face) == {t \in DOMAIN tiles : tiles[t].face = face}

\* C24: on a loss, once the cascade has finished, exactly `mines` tiles show a
\* bomb (the triggering tile and the mines - 1 tiles revealAllTiles
\* designated) and every other tile shows a diamond, also when safe reveals
\* were in flight when the cascade was computed.
C24_LossShowsMinesBombs ==
    (onGameOverCalls = 1 /\ onWinCalls = 0 /\ Settled)
        => /\ Cardinality(Showing("bomb")) = mines
           /\ Showing("diamond") = DOMAIN tiles \ Showing("bomb")

\* the flip of tile idx of the cascade has started, at time StartOf(idx)
Started(idx) == \E n \in DOMAIN stagger.starts : stagger.starts[n].idx = idx
StartOf(idx) ==
    stagger.starts[CHOOSE n \in DOMAIN stagger.starts : stagger.starts[n].idx = idx].at

\* C25: within one cascade the timer of tile number idx is set with the delay
\* revealAllIntervalDelay * idx and its flip timer with flipDelayMin, so the
\* flip of tile idx starts no sooner than revealAllIntervalDelay * idx +
\* flipDelayMin after the cascade was computed; the delays do not decrease
\* with idx and the flips start in the order of the tiles.
C25_CascadeStartsInOrder ==
    /\ \A k \in stagger.timers :
          k.delay = IF k.kind = "reveal"
                    THEN stagger.revealAllIntervalDelay * k.idx
                    ELSE stagger.flipDelayMin
    /\ \A k, o \in stagger.timers :
          (k.kind = "reveal" /\ o.kind = "reveal" /\ k.idx <= o.idx)
              => k.delay <= o.delay
    /\ \A idx \in 0 .. MaxStagger - 1 :
          Started(idx) =>
              StartOf(idx) >= stagger.at + stagger.revealAllIntervalDelay * idx
                                  + stagger.flipDelayMin
    /\ \A n, m \in DOMAIN stagger.starts :
          n < m => /\ stagger.starts[n].idx < stagger.starts[m].idx
                   /\ stagger.starts[n].at <= stagger.starts[m].at

C25_Witness ==
    /\ stagger.size = MaxStagger
    /\ stagger.revealAllIntervalDelay > 0
    /\ stagger.timers = {}
    /\ Len(stagger.starts) = MaxStagger
    /\ StartOf(MaxStagger - 1) > StartOf(0)

\* the game has ended: onWin was invoked, or onGameOver once the bomb's flip
\* completed
Ended == onWinCalls >= 1 \/ onGameOverCalls >= 1

AllRevealed == \A t \in DOMAIN tiles : tiles[t].revealed /\ ~tiles[t].animating

\* C26: after the game has ended, with timers and frames progressing and no
\* reset, setMines or resize, eventually every tile of the board is revealed
\* and no tile is animating.
C26_EndedBoardIsRevealed == Ended ~> AllRevealed

\* an accepted confirmSafe on tile t has set its flip timer, which is pending
SafeRevealPending(t) == FlipTimer(t, "diamond") \in BagToSet(timers)

RevealResolved(t) == tiles[t].revealed /\ ~tiles[t].animating

\* Idle (no selection pending, game not over) or Won
IdleOrWon == (~waitingForChoice /\ ~gameOver) \/ onWinCalls >= 1

\* C27 as stated: after an accepted confirmSafe, with timers and frames
\* progressing and no reset, setMines or resize, the tile is eventually
\* revealed with its animating flag false, the engine being Idle or Won.
C27_SafeRevealEndsIdleOrWon ==
    \A t \in TileIds(2) :
        (t \in DOMAIN tiles /\ SafeRevealPending(t))
            ~> (RevealResolved(t) /\ IdleOrWon)

\* C27, amended: after an accepted confirmSafe, with timers and frames
\* progressing and no reset, setMines or resize, the tile is eventually
\* revealed with its animating flag false, which is how the completion of its
\* flip leaves it; the engine left WaitingForChoice when the confirm was
\* accepted, and may by then be waiting on a newer selection or be lost.
C27_SafeRevealResolves ==
    /\ \A t \in TileIds(2) :
          (t \in DOMAIN tiles /\ SafeRevealPending(t)) ~> RevealResolved(t)
    /\ [][last'.op = "confirmSafe" => (~waitingForChoice' /\ gameOver' = gameOver)]_vars
    /\ [][\A t \in DOMAIN tiles :
              (t \in DOMAIN tiles' /\ tiles'[t].done > tiles[t].done)
                  => (tiles'[t].revealed /\ ~tiles'[t].animating)]_vars

\* a safe reveal has resolved while the engine waits on a newer selection
C27_Witness ==
    \E t \in DOMAIN tiles :
        /\ RevealResolved(t)
        /\ tiles[t].adds = 1
        /\ tiles[t].done = 1
        /\ waitingForChoice
        /\ selectedTile # t
        /\ ~gameOver

\* the step is the return of a call of the player or the host: a tap (with
\* the confirm the host may make inside onCardSelected) or a confirm
CallReturns == last'.op \in {"tap", "confirmSafe", "confirmBomb"}

\* the step reveals a tile, counts a safe reveal or invokes onWin / onGameOver
RevealTakesEffect ==
    \/ \E t \in DOMAIN tiles : ~tiles[t].revealed /\ tiles'[t].revealed
    \/ revealedSafe' # revealedSafe
    \/ onWinCalls' # onWinCalls
    \/ onGameOverCalls' # onGameOverCalls

\* the step is the completion handler of a flip tween that was started by
\* the tile's flip-delay timer
FlipCompletionStep ==
    \E t \in DOMAIN tiles :
        /\ FlipInFlight(State, t)
        /\ tiles'[t].done = tiles[t].done + 1
        /\ \A o \in DOMAIN tiles \ {t} : tiles'[o].revealed = tiles[o].revealed

\* nothing of a cascade exists
NoCascade ==
    /\ cascades = EmptyBag
    /\ cflips = <<>>
    /\ \A w \in BagToSet(tweens) : w.byPlayer

\* C28: a confirm call returns before the reveal takes effect (the revealed
\* flags and revealedSafe are as before the call); a tile becomes revealed,
\* revealedSafe grows and onWin / onGameOver are invoked only in the
\* completion handler of a flip tween, after the tile's flip-delay timer
\* fired; and until onGameOver (or onWin) was invoked no cascade exists and
\* no tile but those the player selected is revealed.
C28_RevealIsDeferred ==
    /\ [][CallReturns => ~RevealTakesEffect]_vars
    /\ [][RevealTakesEffect => FlipCompletionStep]_vars
    /\ []((onGameOverCalls = 0 /\ onWinCalls = 0)
            => (NoCascade /\ \A t \in DOMAIN tiles : tiles[t].revealed => tiles[t].taped))

\* a confirm has returned: its flip timer is pending and nothing is revealed
C28_Witness ==
    /\ last.op \in {"confirmSafe", "confirmBomb"}
    /\ \E face \in {"diamond", "bomb"} : FlipTimer(last.tile, face) \in BagToSet(timers)
    /\ \A t \in DOMAIN tiles : ~tiles[t].revealed
    /\ revealedSafe = 0

\* clamp(n, 1, grid * grid - 1) of the integer n = hi * 2^16 + lo, on the
\* grids of the model (grid * grid - 1 < 2^16)
ClampOfInteger(n, grid) ==
    CASE n.hi > 0 -> ClampMines(Half, grid)
      [] n.hi < 0 -> ClampMines(-1, grid)
      [] OTHER -> ClampMines(n.lo, grid)

FreshBoard == tiles = [i \in TileIds(GRID) |-> FreshTile]

\* C29 as stated: setMines(n) leaves the engine in the state reset() would
\* produce with mines = clamp(n, 1, GRID * GRID - 1), for every integer n.
C29_SetMinesIsResetWithClampOfN ==
    [][last'.op = "setMines" =>
          State' = NewGame(ResetGame([State EXCEPT
                      !.mines = ClampOfInteger(last'.n, GRID)]))]_vars

\* C29, amended: setMines(n) leaves the engine in the state reset() would
\* produce with mines = clamp(n | 0, 1, GRID * GRID - 1): revealedSafe = 0,
\* gameOver false, no selection, every tile fresh and untapped; and
\* totalSafe = GRID * GRID - mines in every reachable state.
C29_SetMinesIsResetWithClampOfInt32 ==
    /\ [][last'.op = "setMines" =>
            State' = NewGame(ResetGame([State EXCEPT
                        !.mines = ClampMines(ToInt32(last'.n), GRID)]))]_vars
    /\ [](last.op = "setMines" =>
            /\ mines = ClampMines(ToInt32(last.n), GRID)
            /\ revealedSafe = 0
            /\ ~gameOver
            /\ ~waitingForChoice
            /\ selectedTile = NoTile
            /\ FreshBoard)
    /\ [](totalSafe = GRID * GRID - mines)

\* setMines(2^32 + 2) was called on a lost game whose bomb had yet to land
C29_Witness ==
    /\ last.op = "setMines"
    /\ last.n = IntArg(Half, 2)
    /\ mines = 2
    /\ FlipTween(NoTile, "bomb", TRUE) \in BagToSet(tweens)

PlayerDelays == {n \in DOMAIN delays.log : delays.log[n].revealedByPlayer}

\* C30 as stated: the delay of a player reveal lies in [flipDelayMin,
\* flipDelayMax] and a later reveal never waits longer than an earlier one;
\* a cascade reveal waits flipDelayMin.
C30_LaterRevealsWaitLess ==
    /\ \A n \in PlayerDelays :
          LET d == delays.log[n].flipDelay
          IN  /\ delays.flipDelayMin * d.den <= d.num
              /\ d.num <= delays.flipDelayMax * d.den
    /\ \A n, m \in PlayerDelays :
          n < m => delays.log[m].flipDelay.num <= delays.log[n].flipDelay.num
    /\ \A n \in DOMAIN delays.log \ PlayerDelays :
          delays.log[n].flipDelay = Fraction(delays.flipDelayMin * delays.total,
                                             delays.total)

\* C30, amended: the delay of a player reveal is flipDelayMin +
\* (flipDelayMax - flipDelayMin) * revealed / total for the tiles revealed
\* when revealTileWithFlip is called; it lies between flipDelayMin and
\* flipDelayMax, whichever is the larger; with flipDelayMin <= flipDelayMax
\* (the default) a later reveal never waits shorter than an earlier one, and
\* with flipDelayMin >= flipDelayMax never longer; a cascade reveal waits
\* flipDelayMin.
C30_DelayInterpolates ==
    /\ \A n \in PlayerDelays :
          LET d == delays.log[n].flipDelay
              r == delays.log[n].revealed
              lo == Min2(delays.flipDelayMin, delays.flipDelayMax)
              hi == Max2(delays.flipDelayMin, delays.flipDelayMax)
          IN  /\ d.den = delays.total
              /\ d.num = delays.flipDelayMin * delays.total
                           + (delays.flipDelayMax - delays.flipDelayMin) * r
              /\ lo * d.den <= d.num
              /\ d.num <= hi * d.den
              /\ r = 0 => d.num = delays.flipDelayMin * d.den
    /\ \A n, m \in PlayerDelays :
          n < m =>
              /\ delays.flipDelayMin <= delays.flipDelayMax
                    => delays.log[n].flipDelay.num <= delays.log[m].flipDelay.num
              /\ delays.flipDelayMin >= delays.flipDelayMax
                    => delays.log[n].flipDelay.num >= delays.log[m].flipDelay.num
    /\ \A n \in DOMAIN delays.log \ PlayerDelays :
          delays.log[n].flipDelay = Fraction(delays.flipDelayMin * delays.total,
                                             delays.total)

\* with flipDelayMin < flipDelayMax, a player reveal waited longer than the
\* one before it, and a cascade reveal waited flipDelayMin
C30_Witness ==
    /\ delays.flipDelayMin < delays.flipDelayMax
    /\ Len(delays.log) = 3
    /\ delays.log[1].revealedByPlayer
    /\ delays.log[2].revealedByPlayer
    /\ ~delays.log[3].revealedByPlayer
    /\ delays.log[1].flipDelay.num < delays.log[2].flipDelay.num

\* a flip scheduled for a tile of the previous board runs its completion
\* handler in this step
StaleFlipCompletes ==
    \E w \in BagToSet(tweens) :
        /\ ~OnBoard(w.tile)
        /\ tweens' = FlipComplete(State, w).tweens
        /\ revealedSafe' = FlipComplete(State, w).revealedSafe
        /\ cascades' = FlipComplete(State, w).cascades

\* C31: once reset() or setMines() returned, the completion of a flip that
\* was scheduled for a tile of the previous board changes neither
\* revealedSafe nor gameOver, reveals or schedules no tile of the new board,
\* and invokes neither onWin nor onGameOver.
C31_StaleCallbacksAreInert ==
    [][(last.op \in {"reset", "setMines"} /\ last' = Idle /\ StaleFlipCompletes) =>
            /\ revealedSafe' = revealedSafe
            /\ gameOver' = gameOver
            /\ tiles' = tiles
            /\ cascades' = cascades /\ cflips' = cflips /\ timers' = timers
            /\ onWinCalls' = onWinCalls
            /\ onGameOverCalls' = onGameOverCalls]_vars

\* C32: a tile that a tap was accepted for takes no tap again on the same
\* board: between the host's confirm and the start of its flip, and at every
\* later moment, a tap on it is rejected.
C32_TapedTileRejectsTaps ==
    \A t \in DOMAIN tiles : tiles[t].taped => TapRejected(State, t)

\* C33: a pending selection can be resolved by the host: whenever
\* waitingForChoice is true, confirmSafe() and confirmBomb() are accepted,
\* clear waitingForChoice and schedule the reveal of the selected tile.
C33_PendingSelectionIsConfirmable ==
    waitingForChoice =>
        /\ ConfirmAccepted(StopSelectedAnimations(State))
        /\ ~SetSelectedCardIsDiamond(State).waitingForChoice
        /\ ~SetSelectedCardIsBomb(State).waitingForChoice
        /\ FlipTimer(selectedTile, "diamond") \in
               BagToSet(SetSelectedCardIsDiamond(State).timers)
        /\ FlipTimer(selectedTile, "bomb") \in
               BagToSet(SetSelectedCardIsBomb(State).timers)

\* tiles of the current board that a flip of the player has revealed as a diamond
PlayerDiamonds == {t \in DOMAIN tiles : tiles[t].revealed /\ tiles[t].adds >= 1}

\* C34: in every reachable state revealedSafe is the number of tiles of the
\* current board that the player revealed as diamonds; cascade reveals and
\* tiles of earlier boards are not counted and no tile is counted twice.
C34_RevealedSafeCountsPlayerDiamonds == revealedSafe = Cardinality(PlayerDiamonds)

\* C35: in one game at most one terminal callback fires: onWin and
\* onGameOver are each invoked at most once and never both.
C35_OneTerminalCallback ==
    /\ onWinCalls <= 1
    /\ onGameOverCalls <= 1
    /\ ~(onWinCalls >= 1 /\ onGameOverCalls >= 1)

\* C36: a host resize rebuilds the board without starting a new game: it
\* leaves gameOver and mines as they are, resets revealedSafe to 0, replaces
\* every tile by a fresh unrevealed untapped one and clears a pending
\* selection, and a confirmSafe() or confirmBomb() that arrives after it
\* changes nothing.
C36_ResizeRebuildsBoardOnly ==
    [][last'.op = "resize" =>
            /\ gameOver' = gameOver
            /\ mines' = mines
            /\ revealedSafe' = 0
            /\ tiles' = [i \in TileIds(GRID) |-> FreshTile]
            /\ ~waitingForChoice' /\ selectedTile' = NoTile
            /\ SetSelectedCardIsDiamond(State)' = State'
            /\ SetSelectedCardIsBomb(State)' = State']_vars

\* the board was resized after the game had ended, while a reveal of the
\* player was still in its delay or in flight
C36_Witness ==
    /\ last.op = "resize"
    /\ gameOver
    /\ tweens # EmptyBag

\* C37: after a win, once the reveal-all cascade has finished, the board
\* shows totalSafe diamonds and `mines` bombs: every tile that was unrevealed
\* at the win is revealed as a bomb. (Stated for games in which no tile was
\* flipped twice.)
C37_WinShowsMinesBombs ==
    (onWinCalls = 1 /\ onGameOverCalls = 0 /\ Settled /\ C4_NoDoubleReveal)
        => /\ Cardinality(Showing("bomb")) = mines
           /\ Cardinality(Showing("diamond")) = totalSafe

(***************************************************************************)
(* Two engines of one host in lock step: the variables hold the engine     *)
(* created with wiggleSelectionEnabled = true, twin the engine created     *)
(* with hoverEnabled = false and wiggleSelectionEnabled = false. Both are  *)
(* handed the same pointer events, host calls and timer and frame          *)
(* callbacks. hoverTile writes the pose and the hover token of a tile      *)
(* only, so hoverEnabled takes no part in the engine state.                *)
(***************************************************************************)
\* the engine state a handler starts from
Entered(S) == [S EXCEPT !.calls = <<>>]

InitTwin ==
    /\ Constructed(Grids, FewOptMines)
    /\ wiggleSelectionEnabled
    /\ twin = [State EXCEPT !.wiggleSelectionEnabled = FALSE]

TwinTap ==
    \E t \in DOMAIN tiles, reply \in HostReplies :
        LET accepted == ~TapRejected(State, t) \/ ~TapRejected(twin, t)
        IN  /\ accepted => taps < MaxTaps
            /\ Assigned(PointerTap(State, t, reply))
            /\ twin' = PointerTap(Entered(twin), t, reply)
            /\ last' = IF accepted THEN Did("tap", t, NoArg) ELSE Idle
            /\ bombConfirmed' =
                  (bombConfirmed \/ (~TapRejected(State, t) /\ reply = "bomb"))
            /\ taps' = IF accepted THEN taps + 1 ELSE taps
            /\ UNCHANGED rebuilds

TwinConfirmSafe ==
    /\ Assigned(SetSelectedCardIsDiamond(State))
    /\ twin' = SetSelectedCardIsDiamond(Entered(twin))
    /\ last' = IF ConfirmAccepted(StopSelectedAnimations(State))
               THEN Did("confirmSafe", selectedTile, NoArg) ELSE Idle
    /\ UNCHANGED <<bombConfirmed, taps, rebuilds>>

TwinConfirmBomb ==
    /\ Assigned(SetSelectedCardIsBomb(State))
    /\ twin' = SetSelectedCardIsBomb(Entered(twin))
    /\ last' = IF ConfirmAccepted(StopSelectedAnimations(State))
               THEN Did("confirmBomb", selectedTile, NoArg) ELSE Idle
    /\ bombConfirmed' = (bombConfirmed \/ ConfirmAccepted(StopSelectedAnimations(State)))
    /\ UNCHANGED <<taps, rebuilds>>

\* a timer or tween callback runs in the twin engine if that engine has
\* scheduled it as well
TwinFlipTimer ==
    \E k \in BagToSet(timers) :
        /\ Assigned(FlipTimerFires(State, k))
        /\ twin' = IF BagIn(k, twin.timers)
                   THEN FlipTimerFires(Entered(twin), k) ELSE Entered(twin)
        /\ last' = Idle
        /\ UNCHANGED <<bombConfirmed, taps, rebuilds>>

TwinCascadeTimer ==
    \E q \in BagToSet(cascades) :
        /\ Assigned(CascadeTimerFires(State, q))
        /\ twin' = IF BagIn(q, twin.cascades)
                   THEN CascadeTimerFires(Entered(twin), q) ELSE Entered(twin)
        /\ last' = Idle
        /\ UNCHANGED <<bombConfirmed, taps, rebuilds>>

TwinCascadeFlip ==
    /\ cflips # <<>>
    /\ Assigned(CascadeFlipFires(State))
    /\ twin' = IF twin.cflips # <<>> /\ Head(twin.cflips) = Head(cflips)
               THEN CascadeFlipFires(Entered(twin)) ELSE Entered(twin)
    /\ last' = Idle
    /\ UNCHANGED <<bombConfirmed, taps, rebuilds>>

TwinFlipCompletes ==
    \E w \in BagToSet(tweens) :
        /\ Assigned(FlipComplete(State, w))
        /\ twin' = IF BagIn(w, twin.tweens)
                   THEN FlipComplete(Entered(twin), w) ELSE Entered(twin)
        /\ last' = Idle
        /\ UNCHANGED <<bombConfirmed, taps, rebuilds>>

\* the wiggle tween runs in the first engine only
TwinWiggleCompletes ==
    \E t \in DOMAIN tiles :
        /\ tiles[t].wiggle
        /\ Assigned(WiggleComplete(State, t))
        /\ twin' = Entered(twin)
        /\ last' = Idle
        /\ UNCHANGED <<bombConfirmed, taps, rebuilds>>

TwinReset ==
    /\ rebuilds < MaxRebuilds
    /\ Assigned(NewGame(ResetGame(State)))
    /\ twin' = NewGame(ResetGame(Entered(twin)))
    /\ last' = Did("reset", NoTile, NoArg)
    /\ bombConfirmed' = FALSE
    /\ rebuilds' = rebuilds + 1
    /\ UNCHANGED taps

NextTwin ==
    \/ TwinTap
    \/ TwinConfirmSafe
    \/ TwinConfirmBomb
    \/ TwinFlipTimer
    \/ TwinCascadeTimer
    \/ TwinCascadeFlip
    \/ TwinFlipCompletes
    \/ TwinWiggleCompletes
    \/ TwinReset

SpecTwin == InitTwin /\ [][NextTwin]_vars

\* the tiles of the engine state S that are revealed
Revealed(S) == {t \in DOMAIN S.tiles : S.tiles[t].revealed}

\* the tiles of the engine state S a tap would be rejected for
Rejecting(S) == {t \in DOMAIN S.tiles : TapRejected(S, t)}

\* C38: the effect flags are cosmetic: after every sequence of taps, host
\* confirms, resets and timer and frame callbacks, the engine with
\* hoverEnabled and wiggleSelectionEnabled false accepts and rejects the same
\* taps, returns the same getState(), has the same tiles revealed and has
\* made the same host callback invocations as the engine with the effects
\* enabled.
C38_EffectFlagsAreCosmetic ==
    /\ Rejecting(State) = Rejecting(twin)
    /\ GetState(State) = GetState(twin)
    /\ Revealed(State) = Revealed(twin)
    /\ onWinCalls = twin.onWinCalls
    /\ onGameOverCalls = twin.onGameOverCalls
    /\ calls = twin.calls
====
